---- MODULE Spec2Model ----
(***************************************************************************)
(* Emergency-department simulation (src/src/simulation): the SimPy event   *)
(* loop, the four recurring processes (arrival, deterioration,             *)
(* optimization, metrics), the per-assignment treatment process, the       *)
(* patient records and the resource pool.                                  *)
(*                                                                         *)
(* Time is in minutes and kept as an integer: every delay of the model is  *)
(* a multiple of ten minutes, and the float means of the metrics are       *)
(* integer quotients.  The draws of the arrival process (inter-arrival     *)
(* gap, triage level, treatment duration) are a stream fixed at            *)
(* construction, as a seeded generator delivers them; the escalation draw  *)
(* and the output of the optimizer are nondeterministic choices.  The      *)
(* SimPy environment is modelled by its event order (time, priority,       *)
(* event id) and by run(until), which stops before the events of the       *)
(* horizon instant.                                                        *)
(***************************************************************************)
EXTENDS Integers, Sequences, FiniteSets, TLC

\* ------------------------------------------------------------ bounds
MaxPatients == 2
MaxDoctors == 2
MaxBeds == 1
MaxBatch == 2
MaxTime == 100
LongTime == 160
RerunTime == 480
MaxReplications == 2
WardDoctors == 2
WardBeds == 2

\* ------------------------------------------------------------ constants
None == -1
DeteriorationInterval == 30
MetricsInterval == 10
WaitMultiplier == 2
DefaultOptimizationInterval == 30

Priorities == 1..5
\* faulty variant: the checked levels shifted by one
ShiftedLevels == <<4, 3>>
CheckedLevels == <<3, 2>>
Gaps == {10}
LongGaps == {10, 30}
Durations == {10, 30}
RerunDurations == {30, 90}
NumDoctorsChoices == -1..MaxDoctors
NumBedsChoices == -1..MaxBeds
ArrivalRates == {-6, 0, 6}

\* One record per future arrival: the inter-arrival gap, the triage level and
\* the treatment duration that the seeded generator will deliver for it.
ArrivalDraws(gaps, durations) ==
    [gap : gaps, priority : Priorities, duration : durations]
DrawStreams(gaps, durations, n) ==
    UNION {[1..k -> ArrivalDraws(gaps, durations)] : k \in 0..n}

VARIABLES
    num_doctors, num_beds, arrival_rate, optimization_interval, optimizer,
    simulation_time, seed,
    phase, error,
    rng,
    now, queue, eid,
    id_counter, patients,
    waiting_patients, treating_patients, discharged_patients,
    doctors, beds,
    metrics,
    total_arrivals, total_treated, total_deteriorations,
    all_results,
    method, created, opt_state, opt_result

\* a call of create_optimizer and of optimize, outside a run
optimizer_call == <<method, created, opt_state, opt_result>>

config == <<num_doctors, num_beds, arrival_rate, optimization_interval,
            optimizer, simulation_time, seed>>
vars == <<num_doctors, num_beds, arrival_rate, optimization_interval, optimizer,
          simulation_time, seed, all_results,
          method, created, opt_state, opt_result,
          phase, error, rng, now, queue, eid, id_counter,
          patients,
          waiting_patients, treating_patients, discharged_patients, doctors,
          beds, metrics, total_arrivals, total_treated, total_deteriorations>>

\* ------------------------------------------------------------ helpers
Range(s) == {s[i] : i \in DOMAIN s}

RECURSIVE Remove(_, _)
\* list.remove(x): drops the first occurrence of x
Remove(s, x) ==
    IF s = <<>> THEN <<>>
    ELSE IF Head(s) = x THEN Tail(s)
    ELSE <<Head(s)>> \o Remove(Tail(s), x)

RECURSIVE SumSeq(_)
SumSeq(s) == IF s = <<>> THEN 0 ELSE Head(s) + SumSeq(Tail(s))

RECURSIVE SetToSeq(_)
\* the elements of a finite set of integers in increasing order
SetToSeq(S) ==
    IF S = {} THEN <<>>
    ELSE LET m == CHOOSE x \in S : \A y \in S : x <= y
         IN <<m>> \o SetToSeq(S \ {m})

Mean(s) == IF s = <<>> THEN 0 ELSE SumSeq(s) \div Len(s)

\* ------------------------------------------------------------ Patient
\* The patients of a run, keyed by Patient.id.
AddPatient(ps, id, p) ==
    [i \in DOMAIN ps \cup {id} |-> IF i = id THEN p ELSE ps[i]]

NewPatient(id, arrival, priority, duration) ==
    [id |-> id, arrival_time |-> arrival, priority |-> priority,
     initial_priority |-> priority, treatment_duration |-> duration,
     start_treatment_time |-> None, end_treatment_time |-> None,
     assigned_doctor |-> None, assigned_bed |-> None]

get_max_wait_time(p) ==
    CASE p.priority = 1 -> 0
      [] p.priority = 2 -> 15
      [] p.priority = 3 -> 30
      [] p.priority = 4 -> 60
      [] p.priority = 5 -> 120

\* faulty variant: the wait keeps growing after the start of treatment
get_wait_time_running(p, current_time) ==
    current_time - p.arrival_time

get_wait_time(p, current_time) ==
    IF p.start_treatment_time # None
    THEN p.start_treatment_time - p.arrival_time
    ELSE current_time - p.arrival_time

\* faulty variant: the level moves the wrong way
deteriorate_up(p) ==
    IF p.priority > 1 THEN [p EXCEPT !.priority = @ + 1] ELSE p

deteriorate(p) ==
    IF p.priority > 1 THEN [p EXCEPT !.priority = @ - 1] ELSE p

\* faulty variant: the arrival instant is stored as the start of treatment
start_treatment_at_arrival(p, current_time, doctor_id, bed_id) ==
    [p EXCEPT !.start_treatment_time = p.arrival_time,
              !.assigned_doctor = doctor_id,
              !.assigned_bed = bed_id]

start_treatment(p, current_time, doctor_id, bed_id) ==
    [p EXCEPT !.start_treatment_time = current_time,
              !.assigned_doctor = doctor_id,
              !.assigned_bed = bed_id]

\* faulty variant: the duration is stored where the end timestamp belongs
end_treatment_duration(p, current_time) ==
    [p EXCEPT !.end_treatment_time = p.treatment_duration]

end_treatment(p, current_time) ==
    [p EXCEPT !.end_treatment_time = current_time]

\* ------------------------------------------------------------ Doctor, Bed
NewDoctor(i) ==
    [id |-> i, is_available |-> TRUE, current_patient |-> None,
     total_patients_treated |-> 0, total_treatment_time |-> 0]

NewBed(i) ==
    [id |-> i, is_available |-> TRUE, current_patient |-> None,
     total_occupancy_time |-> 0]

\* faulty variant: the assigned doctor stays available
DoctorAssignStaysFree(d, patient_id) ==
    [d EXCEPT !.current_patient = patient_id,
              !.total_patients_treated = @ + 1]

\* faulty variant: the assignment is not counted
DoctorAssignUncounted(d, patient_id) ==
    [d EXCEPT !.is_available = FALSE, !.current_patient = patient_id]

DoctorAssign(d, patient_id) ==
    [d EXCEPT !.is_available = FALSE, !.current_patient = patient_id,
              !.total_patients_treated = @ + 1]

\* faulty variant: the released doctor keeps its current patient
DoctorReleaseKeepPatient(d, treatment_time) ==
    [d EXCEPT !.is_available = TRUE,
              !.total_treatment_time = @ + treatment_time]

DoctorRelease(d, treatment_time) ==
    [d EXCEPT !.is_available = TRUE, !.current_patient = None,
              !.total_treatment_time = @ + treatment_time]

BedAssign(b, patient_id) ==
    [b EXCEPT !.is_available = FALSE, !.current_patient = patient_id]

\* faulty variant: the released bed does not accumulate the occupancy time
BedReleaseUntimed(b, occupancy_time) ==
    [b EXCEPT !.is_available = TRUE, !.current_patient = None]

BedRelease(b, occupancy_time) ==
    [b EXCEPT !.is_available = TRUE, !.current_patient = None,
              !.total_occupancy_time = @ + occupancy_time]

get_utilization_rate(d, total_time) ==
    IF total_time = 0 THEN 0 ELSE (d.total_treatment_time * 100) \div total_time

get_occupancy_rate(b, total_time) ==
    IF total_time = 0 THEN 0 ELSE (b.total_occupancy_time * 100) \div total_time

\* get_doctor_by_id / get_bed_by_id return None for an id outside the pool
HasDoctor(s, doctor_id) == doctor_id \in DOMAIN s.doctors
HasBed(s, bed_id) == bed_id \in DOMAIN s.beds

get_available_doctors(s) == {i \in DOMAIN s.doctors : s.doctors[i].is_available}
get_available_beds(s) == {i \in DOMAIN s.beds : s.beds[i].is_available}

\* ------------------------------------------------------------ the state as one value
\* The mutable state of one EmergencyDepartment and its environment.
Cur ==
    [rng |-> rng, now |-> now, queue |-> queue, eid |-> eid,
     id_counter |-> id_counter, patients |-> patients,
     waiting_patients |-> waiting_patients,
     treating_patients |-> treating_patients,
     discharged_patients |-> discharged_patients,
     doctors |-> doctors, beds |-> beds, metrics |-> metrics,
     total_arrivals |-> total_arrivals, total_treated |-> total_treated,
     total_deteriorations |-> total_deteriorations]

Commit(s) ==
    /\ rng' = s.rng
    /\ now' = s.now
    /\ queue' = s.queue
    /\ eid' = s.eid
    /\ id_counter' = s.id_counter
    /\ patients' = s.patients
    /\ waiting_patients' = s.waiting_patients
    /\ treating_patients' = s.treating_patients
    /\ discharged_patients' = s.discharged_patients
    /\ doctors' = s.doctors
    /\ beds' = s.beds
    /\ metrics' = s.metrics
    /\ total_arrivals' = s.total_arrivals
    /\ total_treated' = s.total_treated
    /\ total_deteriorations' = s.total_deteriorations

\* faulty variant: among the events of an instant the latest scheduled is first
BeforeLifo(e, f) ==
    \/ e.time < f.time
    \/ /\ e.time = f.time
       /\ \/ e.urgent /\ ~f.urgent
          \/ e.urgent = f.urgent /\ e.eid > f.eid

\* ------------------------------------------------------------ event queue (SimPy)
\* Events are ordered by (time, priority, event id); URGENT precedes NORMAL.
Before(e, f) ==
    \/ e.time < f.time
    \/ /\ e.time = f.time
       /\ \/ e.urgent /\ ~f.urgent
          \/ e.urgent = f.urgent /\ e.eid < f.eid

NextEvent(q) == CHOOSE e \in q : \A f \in q \ {e} : Before(e, f)

Schedule(s, urgent, delay, kind, patient_id) ==
    [s EXCEPT !.queue = @ \cup {[time |-> s.now + delay, urgent |-> urgent,
                                  eid |-> s.eid, kind |-> kind,
                                  patient |-> patient_id]},
              !.eid = @ + 1]

\* env.step(): pop the earliest event and advance the clock to it
Pop(s) ==
    LET e == NextEvent(s.queue)
    IN [s EXCEPT !.queue = @ \ {e}, !.now = e.time]

Firing(kind) ==
    /\ phase = "running"
    /\ queue # {}
    /\ NextEvent(queue).kind = kind

\* ------------------------------------------------------------ queues
AllWaiting(s) ==
    UNION {Range(s.waiting_patients[k]) : k \in Priorities}

IsWaiting(s, patient_id) == patient_id \in AllWaiting(s)

\* the first queue, in dictionary order P1..P5, that holds the patient
QueueOf(s, patient_id) ==
    CHOOSE k \in Priorities :
        /\ patient_id \in Range(s.waiting_patients[k])
        /\ \A j \in Priorities :
               patient_id \in Range(s.waiting_patients[j]) => k <= j

\* faulty variant: the patient is looked up among all patients, not the waiting ones
AssignPatientAnyKnown(s, patient_id, doctor_id, bed_id) ==
    IF patient_id \notin DOMAIN s.patients THEN s
    ELSE
      LET s1 == IF IsWaiting(s, patient_id)
                THEN [s EXCEPT !.waiting_patients[QueueOf(s, patient_id)] =
                                   Remove(@, patient_id)]
                ELSE s
      IN IF ~HasDoctor(s1, doctor_id) \/ ~HasBed(s1, bed_id) THEN s1
         ELSE
           LET s2 == [s1 EXCEPT
                        !.patients[patient_id] =
                            start_treatment(@, s1.now, doctor_id, bed_id),
                        !.doctors[doctor_id] = DoctorAssign(@, patient_id),
                        !.beds[bed_id] = BedAssign(@, patient_id),
                        !.treating_patients = Append(@, patient_id)]
           IN Schedule(s2, TRUE, 0, "init_treatment", patient_id)

\* faulty variant: the assignment is recorded but no treatment process is started
AssignPatientNoProcess(s, patient_id, doctor_id, bed_id) ==
    IF ~IsWaiting(s, patient_id) THEN s
    ELSE
      LET k == QueueOf(s, patient_id)
          s1 == [s EXCEPT !.waiting_patients[k] = Remove(@, patient_id)]
      IN IF ~HasDoctor(s1, doctor_id) \/ ~HasBed(s1, bed_id) THEN s1
         ELSE [s1 EXCEPT
                 !.patients[patient_id] =
                     start_treatment(@, s1.now, doctor_id, bed_id),
                 !.doctors[doctor_id] = DoctorAssign(@, patient_id),
                 !.beds[bed_id] = BedAssign(@, patient_id),
                 !.treating_patients = Append(@, patient_id)]

\* ------------------------------------------------------------ _assign_patient
AssignPatient(s, patient_id, doctor_id, bed_id) ==
    IF ~IsWaiting(s, patient_id) THEN s
    ELSE
      LET k == QueueOf(s, patient_id)
          s1 == [s EXCEPT !.waiting_patients[k] = Remove(@, patient_id)]
      IN IF ~HasDoctor(s1, doctor_id) \/ ~HasBed(s1, bed_id) THEN s1
         ELSE
           LET s2 == [s1 EXCEPT
                        !.patients[patient_id] =
                            start_treatment(@, s1.now, doctor_id, bed_id),
                        !.doctors[doctor_id] = DoctorAssign(@, patient_id),
                        !.beds[bed_id] = BedAssign(@, patient_id),
                        !.treating_patients = Append(@, patient_id)]
           IN Schedule(s2, TRUE, 0, "init_treatment", patient_id)

RECURSIVE ApplyBatch(_, _)
\* the for loop of optimization_process over the returned triples
ApplyBatch(s, assignments) ==
    IF assignments = <<>> THEN s
    ELSE LET t == Head(assignments)
         IN ApplyBatch(AssignPatient(s, t.patient_id, t.doctor_id, t.bed_id),
                       Tail(assignments))

\* faulty variant: the escalated patient is not removed from its old queue
DeterioratePatientKeepOld(s, patient_id, lucky) ==
    LET p == s.patients[patient_id]
        wait_time == get_wait_time(p, s.now)
        max_wait == get_max_wait_time(p)
    IN IF wait_time > max_wait * WaitMultiplier /\ patient_id \in lucky
       THEN LET q == deteriorate(p)
            IN IF q.priority # p.priority
               THEN [s EXCEPT
                       !.patients[patient_id] = q,
                       !.waiting_patients[q.priority] = Append(@, patient_id),
                       !.total_deteriorations = @ + 1]
               ELSE [s EXCEPT !.patients[patient_id] = q]
       ELSE s

\* faulty variant: the escalated patient goes to the head of its new queue
DeterioratePatientToHead(s, patient_id, lucky) ==
    LET p == s.patients[patient_id]
        wait_time == get_wait_time(p, s.now)
        max_wait == get_max_wait_time(p)
    IN IF wait_time > max_wait * WaitMultiplier /\ patient_id \in lucky
       THEN LET q == deteriorate(p)
            IN IF q.priority # p.priority
               THEN [s EXCEPT
                       !.patients[patient_id] = q,
                       !.waiting_patients[p.priority] = Remove(@, patient_id),
                       !.waiting_patients[q.priority] = <<patient_id>> \o @,
                       !.total_deteriorations = @ + 1]
               ELSE [s EXCEPT !.patients[patient_id] = q]
       ELSE s

\* faulty variant: a wait equal to the threshold is enough for a draw
DeterioratePatientAtThreshold(s, patient_id, lucky) ==
    LET p == s.patients[patient_id]
        wait_time == get_wait_time(p, s.now)
        max_wait == get_max_wait_time(p)
    IN IF wait_time >= max_wait * WaitMultiplier /\ patient_id \in lucky
       THEN LET old_priority == p.priority
                q == deteriorate(p)
            IN IF q.priority # old_priority
               THEN [s EXCEPT
                       !.patients[patient_id] = q,
                       !.waiting_patients[old_priority] = Remove(@, patient_id),
                       !.waiting_patients[q.priority] = Append(@, patient_id),
                       !.total_deteriorations = @ + 1]
               ELSE [s EXCEPT !.patients[patient_id] = q]
       ELSE s

\* ------------------------------------------------------------ deterioration
\* One iteration of the inner loop for one patient of the copied queue;
\* lucky is the set of patients whose random draw falls below the chance.
DeterioratePatient(s, patient_id, lucky) ==
    LET p == s.patients[patient_id]
        wait_time == get_wait_time(p, s.now)
        max_wait == get_max_wait_time(p)
    IN IF wait_time > max_wait * WaitMultiplier /\ patient_id \in lucky
       THEN LET old_priority == p.priority
                q == deteriorate(p)
            IN IF q.priority # old_priority
               THEN [s EXCEPT
                       !.patients[patient_id] = q,
                       !.waiting_patients[old_priority] = Remove(@, patient_id),
                       !.waiting_patients[q.priority] = Append(@, patient_id),
                       !.total_deteriorations = @ + 1]
               ELSE [s EXCEPT !.patients[patient_id] = q]
       ELSE s

RECURSIVE DeteriorateQueue(_, _, _)
DeteriorateQueue(s, copy, lucky) ==
    IF copy = <<>> THEN s
    ELSE DeteriorateQueue(DeterioratePatient(s, Head(copy), lucky),
                          Tail(copy), lucky)

\* the patients of a queue for which a draw is made: those that the
\* threshold test of the inner loop lets through
Overdue(s, k) ==
    {i \in Range(s.waiting_patients[k]) : DeterioratePatient(s, i, {i}) # s}

\* ------------------------------------------------------------ metrics
Sample(s) ==
    LET ids == SetToSeq(AllWaiting(s))
        wait_times == [i \in DOMAIN ids |->
                          get_wait_time(s.patients[ids[i]], s.now)]
        docs == SetToSeq(DOMAIN s.doctors)
        bds == SetToSeq(DOMAIN s.beds)
    IN [time |-> s.now,
        waiting_patients |->
            SumSeq([k \in 1..5 |-> Len(s.waiting_patients[k])]),
        avg_wait_time |-> Mean(wait_times),
        treating_patients |-> Len(s.treating_patients),
        discharged_patients |-> Len(s.discharged_patients),
        doctor_utilization |->
            Mean([i \in DOMAIN docs |->
                     get_utilization_rate(s.doctors[docs[i]], s.now)]),
        bed_occupancy |->
            Mean([i \in DOMAIN bds |->
                     get_occupancy_rate(s.beds[bds[i]], s.now)])]

\* ------------------------------------------------------------ policy outputs
\* Patient._id_counter at the construction of this controller
FirstId == id_counter - total_arrivals

Triples ==
    [patient_id : (FirstId + 1)..(FirstId + MaxPatients),
     doctor_id : 0..num_doctors, bed_id : 0..num_beds]

PolicyOutputs == UNION {[1..n -> Triples] : n \in 0..MaxBatch}

\* ------------------------------------------------------------ initial state
\* faulty variant: only a negative capacity is rejected
ConstructionErrorNegativeOnly(nd, nb) ==
    IF nd < 0 \/ nb < 0 THEN "ValueError" ELSE "none"

\* EmergencyDepartment.__init__: simpy.Resource rejects a capacity <= 0 with
\* ValueError, so construction fails for a non-positive pool size.
ConstructionError(nd, nb) ==
    IF nd <= 0 \/ nb <= 0 THEN "ValueError" ELSE "none"

\* no optimizer has been created or called on its own
NoOptimizerCall ==
    /\ method = <<>>
    /\ created = [class |-> "none", model |-> FALSE]
    /\ opt_state = [waiting_patients |-> <<>>, available_doctors |-> <<>>,
                    available_beds |-> <<>>, current_time |-> 0]
    /\ opt_result = [called |-> FALSE, solved |-> FALSE, assignments |-> <<>>]

ConstructedWith(doctor_choices, bed_choices, streams, horizon, optimizers) ==
    /\ num_doctors \in doctor_choices
    /\ num_beds \in bed_choices
    /\ arrival_rate \in ArrivalRates
    /\ optimization_interval = DefaultOptimizationInterval
    /\ optimizer \in optimizers
    /\ simulation_time = horizon
    /\ rng \in streams
    /\ seed = rng
    /\ all_results = <<>>
    /\ NoOptimizerCall
    /\ error = ConstructionError(num_doctors, num_beds)
    /\ phase = IF error = "none" THEN "constructed" ELSE "init_failed"
    /\ now = 0
    /\ queue = {}
    /\ eid = 0
    /\ id_counter = 0
    /\ patients = <<>>
    /\ waiting_patients = [k \in Priorities |-> <<>>]
    /\ treating_patients = <<>>
    /\ discharged_patients = <<>>
    /\ doctors = IF error = "none"
                 THEN [i \in 0..(num_doctors - 1) |-> NewDoctor(i)] ELSE <<>>
    /\ beds = IF error = "none"
              THEN [i \in 0..(num_beds - 1) |-> NewBed(i)] ELSE <<>>
    /\ metrics = <<>>
    /\ total_arrivals = 0
    /\ total_treated = 0
    /\ total_deteriorations = 0

Constructed(streams, horizon, optimizers) ==
    ConstructedWith(NumDoctorsChoices, NumBedsChoices, streams, horizon,
                    optimizers)

Init ==
    Constructed(DrawStreams(Gaps, Durations, MaxPatients), MaxTime,
                {"none", "any"})

\* a longer run with at most one arrival
InitLong ==
    Constructed(DrawStreams(LongGaps, Durations, 1), LongTime, {"none", "any"})

\* a full-length run with at most one arrival and a deterministic policy
InitRerun ==
    Constructed(DrawStreams(Gaps, RerunDurations, 1), RerunTime, {"greedy"})

\* a run with two arrivals at gaps of 10 or 30 minutes, without a policy or
\* with the deterministic one
InitEscalation ==
    Constructed(DrawStreams(LongGaps, Durations, MaxPatients), MaxTime,
                {"none", "greedy"})

\* a ward of one or two doctors and beds whose policy returns well-formed
\* batches only, with treatments of 30 or 90 minutes
InitWard ==
    ConstructedWith(1..WardDoctors, 1..WardBeds,
                    DrawStreams(Gaps, RerunDurations, MaxPatients), LongTime,
                    {"wellformed"})

\* ------------------------------------------------------------ actions
\* run(): start the four processes, then env.run(until=simulation_time)
Run ==
    /\ phase = "constructed"
    /\ LET s1 == Schedule(Cur, TRUE, 0, "init_arrival", None)
           s2 == Schedule(s1, TRUE, 0, "init_deterioration", None)
           s3 == Schedule(s2, TRUE, 0, "init_optimization", None)
           s4 == Schedule(s3, TRUE, 0, "init_metrics", None)
           s5 == Schedule(s4, TRUE, simulation_time, "until", None)
       IN Commit(s5)
    /\ phase' = "running"
    /\ UNCHANGED <<config, optimizer_call, all_results, error>>

\* the draw of the next inter-arrival gap and the timeout on it
ScheduleArrival(s) ==
    IF arrival_rate = 0
    THEN {Schedule(s, FALSE, 0, "fail_ZeroDivisionError", None)}
    ELSE IF arrival_rate < 0
    THEN {Schedule(s, FALSE, 0, "fail_ValueError", None)}
    ELSE IF s.rng = <<>>
    THEN {Schedule(s, FALSE, simulation_time + MetricsInterval, "arrival", None)}
    ELSE {Schedule(s, FALSE, Head(s.rng).gap, "arrival", None)}

ArrivalInit ==
    /\ Firing("init_arrival")
    /\ \E s \in ScheduleArrival(Pop(Cur)) : Commit(s)
    /\ UNCHANGED <<config, optimizer_call, all_results, phase, error>>

Arrival ==
    /\ Firing("arrival")
    /\ rng # <<>>
    /\    LET s0 == Pop(Cur)
              priority == Head(s0.rng).priority
              duration == Head(s0.rng).duration
              id == s0.id_counter + 1
              p == NewPatient(id, s0.now, priority, duration)
              s1 == [s0 EXCEPT
                       !.rng = Tail(@),
                       !.id_counter = id,
                       !.patients = AddPatient(@, id, p),
                       !.waiting_patients[priority] = Append(@, id),
                       !.total_arrivals = @ + 1]
          IN \E s \in ScheduleArrival(s1) : Commit(s)
    /\ UNCHANGED <<config, optimizer_call, all_results, phase, error>>

DeteriorationInit ==
    /\ Firing("init_deterioration")
    /\ Commit(Schedule(Pop(Cur), FALSE, DeteriorationInterval,
                       "deterioration", None))
    /\ UNCHANGED <<config, optimizer_call, all_results, phase, error>>

\* faulty variant: the check also escalates the patients in treatment
DeteriorationCheckTreating(s, lucky3, lucky2) ==
    LET a == DeteriorateQueue(s, s.waiting_patients[CheckedLevels[1]], lucky3)
        b == DeteriorateQueue(a, a.waiting_patients[CheckedLevels[2]], lucky2)
    IN [b EXCEPT !.patients =
           [i \in DOMAIN @ |->
               IF i \in Range(b.treating_patients) THEN deteriorate(@[i])
               ELSE @[i]]]

\* one firing of the deterioration check: the levels of CheckedLevels in order
DeteriorationCheck(s, lucky3, lucky2) ==
    LET a == DeteriorateQueue(s, s.waiting_patients[CheckedLevels[1]], lucky3)
    IN DeteriorateQueue(a, a.waiting_patients[CheckedLevels[2]], lucky2)

Deterioration ==
    /\ Firing("deterioration")
    /\ LET s0 == Pop(Cur)
       IN \E lucky3 \in SUBSET Overdue(s0, CheckedLevels[1]) :
            LET a == DeteriorateQueue(s0, s0.waiting_patients[CheckedLevels[1]],
                                      lucky3)
            IN \E lucky2 \in SUBSET Overdue(a, CheckedLevels[2]) :
                 Commit(Schedule(DeteriorationCheck(s0, lucky3, lucky2), FALSE,
                                 DeteriorationInterval, "deterioration", None))
    /\ UNCHANGED <<config, optimizer_call, all_results, phase, error>>

OptimizationInit ==
    /\ Firing("init_optimization")
    /\ Commit(Schedule(Pop(Cur), FALSE, optimization_interval,
                       "optimization", None))
    /\ UNCHANGED <<config, optimizer_call, all_results, phase, error>>

\* faulty variant: the snapshot lists every doctor and bed, busy or not
get_system_state_all_resources(s) ==
    [waiting_patients |->
         s.waiting_patients[1] \o s.waiting_patients[2] \o s.waiting_patients[3]
             \o s.waiting_patients[4] \o s.waiting_patients[5],
     available_doctors |-> SetToSeq(DOMAIN s.doctors),
     available_beds |-> SetToSeq(DOMAIN s.beds),
     current_time |-> s.now]

\* _get_system_state: the snapshot handed to the optimizer
get_system_state(s) ==
    [waiting_patients |->
         s.waiting_patients[1] \o s.waiting_patients[2] \o s.waiting_patients[3]
             \o s.waiting_patients[4] \o s.waiting_patients[5],
     available_doctors |-> SetToSeq(get_available_doctors(s)),
     available_beds |-> SetToSeq(get_available_beds(s)),
     current_time |-> s.now]

Min(a, b) == IF a <= b THEN a ELSE b

\* A policy that is a function of its snapshot: the waiting patients, in
\* snapshot order, paired with the available doctors and beds in id order.
GreedyPolicy(state) ==
    LET n == Min(Len(state.waiting_patients),
                 Min(Len(state.available_doctors), Len(state.available_beds)))
    IN [k \in 1..n |-> [patient_id |-> state.waiting_patients[k],
                        doctor_id |-> state.available_doctors[k],
                        bed_id |-> state.available_beds[k]]]

\* faulty variant: the policy returns any list of triples
UncheckedOutputs(state) == PolicyOutputs

\* The lists a well-formed policy can return for a snapshot: each triple
\* names a waiting patient, an available doctor and an available bed of the
\* snapshot, and no patient, doctor or bed is named twice.
WellFormedOutputs(state) ==
    {a \in UNION {[1..n -> [patient_id : Range(state.waiting_patients),
                            doctor_id : Range(state.available_doctors),
                            bed_id : Range(state.available_beds)]] :
                     n \in 0..MaxBatch} :
        \A i, j \in DOMAIN a :
            i # j => /\ a[i].patient_id # a[j].patient_id
                     /\ a[i].doctor_id # a[j].doctor_id
                     /\ a[i].bed_id # a[j].bed_id}

\* What the call self.optimizer(state) can do: return a list or raise.
PolicyOutcomes(s) ==
    IF optimizer = "greedy"
    THEN {[raised |-> FALSE, assignments |-> GreedyPolicy(get_system_state(s))]}
    ELSE IF optimizer = "wellformed"
    THEN {[raised |-> FALSE, assignments |-> a] :
             a \in WellFormedOutputs(get_system_state(s))}
             \cup {[raised |-> TRUE, assignments |-> <<>>]}
    ELSE IF optimizer = "any"
    THEN {[raised |-> FALSE, assignments |-> a] : a \in PolicyOutputs}
             \cup {[raised |-> TRUE, assignments |-> <<>>]}
    ELSE {[raised |-> FALSE, assignments |-> <<>>]}

\* faulty variant: no try/except around the policy call, the process dies
OptimizationCycleUncaught(s, outcome) ==
    IF optimizer = "none"
    THEN Schedule(s, FALSE, optimization_interval, "optimization", None)
    ELSE IF outcome.raised
    THEN Schedule(s, FALSE, 0, "fail_ValueError", None)
    ELSE Schedule(ApplyBatch(s, outcome.assignments), FALSE,
                  optimization_interval, "optimization", None)

\* one iteration of optimization_process after its timeout
OptimizationCycle(s, outcome) ==
    IF optimizer = "none" \/ outcome.raised
    THEN Schedule(s, FALSE, optimization_interval, "optimization", None)
    ELSE Schedule(ApplyBatch(s, outcome.assignments), FALSE,
                  optimization_interval, "optimization", None)

Optimization ==
    /\ Firing("optimization")
    /\ \E outcome \in PolicyOutcomes(Pop(Cur)) :
          Commit(OptimizationCycle(Pop(Cur), outcome))
    /\ UNCHANGED <<config, optimizer_call, all_results, phase, error>>

MetricsInit ==
    /\ Firing("init_metrics")
    /\ Commit(Schedule(Pop(Cur), FALSE, MetricsInterval, "metrics", None))
    /\ UNCHANGED <<config, optimizer_call, all_results, phase, error>>

CollectMetrics ==
    /\ Firing("metrics")
    /\ LET s0 == Pop(Cur)
           s1 == [s0 EXCEPT !.metrics = Append(@, Sample(s0))]
       IN Commit(Schedule(s1, FALSE, MetricsInterval, "metrics", None))
    /\ UNCHANGED <<config, optimizer_call, all_results, phase, error>>

TreatmentInit ==
    /\ Firing("init_treatment")
    /\ LET s0 == Pop(Cur)
           pid == NextEvent(queue).patient
       IN Commit(Schedule(s0, FALSE, s0.patients[pid].treatment_duration,
                          "treatment", pid))
    /\ UNCHANGED <<config, optimizer_call, all_results, phase, error>>

\* faulty variant: the resources are released but the discharge is not recorded
CompleteTreatmentReleaseOnly(s, pid) ==
    LET p == s.patients[pid]
        s1 == IF HasDoctor(s, p.assigned_doctor)
              THEN [s EXCEPT !.doctors[p.assigned_doctor] =
                                 DoctorRelease(@, p.treatment_duration)]
              ELSE s
        s2 == IF HasBed(s1, p.assigned_bed)
              THEN [s1 EXCEPT !.beds[p.assigned_bed] =
                                  BedRelease(@, p.treatment_duration)]
              ELSE s1
    IN [s2 EXCEPT !.treating_patients = Remove(@, pid)]

\* the body of _treatment_process after its timeout
CompleteTreatment(s, pid) ==
    LET p == s.patients[pid]
        s1 == IF HasDoctor(s, p.assigned_doctor)
              THEN [s EXCEPT !.doctors[p.assigned_doctor] =
                                 DoctorRelease(@, p.treatment_duration)]
              ELSE s
        s2 == IF HasBed(s1, p.assigned_bed)
              THEN [s1 EXCEPT !.beds[p.assigned_bed] =
                                  BedRelease(@, p.treatment_duration)]
              ELSE s1
    IN [s2 EXCEPT !.patients[pid] = end_treatment(@, s.now),
                  !.treating_patients = Remove(@, pid),
                  !.discharged_patients = Append(@, pid),
                  !.total_treated = @ + 1]

TreatmentComplete ==
    /\ Firing("treatment")
    /\ Commit(CompleteTreatment(Pop(Cur), NextEvent(queue).patient))
    /\ UNCHANGED <<config, optimizer_call, all_results, phase, error>>

\* a process that raised: env.step() re-raises out of env.run()
ProcessFailed ==
    /\ phase = "running"
    /\ queue # {}
    /\ NextEvent(queue).kind \in {"fail_ZeroDivisionError", "fail_ValueError"}
    /\ Commit(Pop(Cur))
    /\ phase' = "crashed"
    /\ error' = IF NextEvent(queue).kind = "fail_ZeroDivisionError"
                THEN "ZeroDivisionError" ELSE "ValueError"
    /\ UNCHANGED <<config, optimizer_call, all_results>>

\* the until event: env.run() returns
Until ==
    /\ Firing("until")
    /\ Commit(Pop(Cur))
    /\ phase' = "finished"
    /\ UNCHANGED <<config, optimizer_call, all_results, error>>

Next ==
    \/ Run
    \/ ArrivalInit
    \/ Arrival
    \/ DeteriorationInit
    \/ Deterioration
    \/ OptimizationInit
    \/ Optimization
    \/ MetricsInit
    \/ CollectMetrics
    \/ TreatmentInit
    \/ TreatmentComplete
    \/ ProcessFailed
    \/ Until

Spec == Init /\ [][Next]_vars

\* ------------------------------------------------------------ results and replications
\* get_results: the discharged records, the counters and the resource statistics
DischargedRecord(s, i) ==
    LET p == s.patients[i]
    IN [id |-> p.id, initial_priority |-> p.initial_priority,
        final_priority |-> p.priority, arrival_time |-> p.arrival_time,
        start_treatment |-> p.start_treatment_time,
        end_treatment |-> p.end_treatment_time,
        wait_time |-> get_wait_time(p, IF p.start_treatment_time = None
                                        THEN s.now ELSE p.start_treatment_time),
        treatment_duration |-> p.treatment_duration]

get_statistics(s) ==
    [doctors |->
         [count |-> Cardinality(DOMAIN s.doctors),
          available |-> Cardinality(get_available_doctors(s)),
          utilization_rates |->
              [i \in DOMAIN s.doctors |->
                  get_utilization_rate(s.doctors[i], s.now)],
          total_patients_treated |->
              SumSeq([k \in 1..Cardinality(DOMAIN s.doctors) |->
                         s.doctors[k - 1].total_patients_treated])],
     beds |->
         [count |-> Cardinality(DOMAIN s.beds),
          available |-> Cardinality(get_available_beds(s)),
          occupancy_rates |->
              [i \in DOMAIN s.beds |->
                  get_occupancy_rate(s.beds[i], s.now)]]]

get_results(s) ==
    [metrics |-> s.metrics,
     total_arrivals |-> s.total_arrivals,
     total_treated |-> s.total_treated,
     total_deteriorations |-> s.total_deteriorations,
     discharged_patients |->
         [k \in DOMAIN s.discharged_patients |->
             DischargedRecord(s, s.discharged_patients[k])],
     resource_stats |-> get_statistics(s)]

\* The next replication in the same interpreter: the results of the finished
\* run are kept, the generator is seeded again, and a new environment and a
\* new controller are built from the same configuration.  The class
\* attribute Patient._id_counter is not part of the controller.
NextReplication ==
    /\ phase = "finished"
    /\ Len(all_results) + 1 < MaxReplications
    /\ all_results' = Append(all_results, get_results(Cur))
    /\ Commit([Cur EXCEPT
                 !.rng = seed, !.now = 0, !.queue = {}, !.eid = 0,
                 !.patients = <<>>,
                 !.waiting_patients = [k \in Priorities |-> <<>>],
                 !.treating_patients = <<>>,
                 !.discharged_patients = <<>>,
                 !.doctors = [i \in 0..(num_doctors - 1) |-> NewDoctor(i)],
                 !.beds = [i \in 0..(num_beds - 1) |-> NewBed(i)],
                 !.metrics = <<>>,
                 !.total_arrivals = 0, !.total_treated = 0,
                 !.total_deteriorations = 0])
    /\ phase' = "constructed"
    /\ UNCHANGED <<config, optimizer_call, error>>

NextRerun == Next \/ NextReplication

SpecRerun == InitRerun /\ [][NextRerun]_vars

SpecLong == InitLong /\ [][Next]_vars

SpecEscalation == InitEscalation /\ [][Next]_vars

SpecWard == InitWard /\ [][Next]_vars

\* ------------------------------------------------------------ batch processing states
\* An optimization cycle with a policy is about to run its body.
OptimizationFiring == Firing("optimization") /\ optimizer = "any"

\* The states in which a triple of the batch is processed: the state at the
\* start of the cycle, and the states after each proper prefix of a batch.
BatchPrefixes == UNION {[1..n -> Triples] : n \in 0..(MaxBatch - 1)}
ProcessingStates == {ApplyBatch(Pop(Cur), b) : b \in BatchPrefixes}

Assigned(s, t) == AssignPatient(s, t.patient_id, t.doctor_id, t.bed_id)

\* a metrics sample was appended by this step
Sampled == Len(metrics') = Len(metrics) + 1
LastSample == metrics'[Len(metrics')]

\* ------------------------------------------------------------ claims

\* C1: at every metrics sample, waiting + in-treatment + discharged counts
\* equal total_arrivals at that instant, for every policy output.
C1_SampleConservation ==
    [][Sampled =>
         LastSample.waiting_patients + LastSample.treating_patients
           + LastSample.discharged_patients = total_arrivals']_vars

\* C2: no doctor id and no bed id is held by more than one in-treatment
\* patient at the same time, for every policy output.
C2_ExclusiveResources ==
    \A i, j \in Range(treating_patients) :
        i # j => /\ patients[i].assigned_doctor # patients[j].assigned_doctor
                 /\ patients[i].assigned_bed # patients[j].assigned_bed

\* C3: a triple whose doctor or bed is not available at the moment it is
\* processed (claimed by an earlier triple of the batch, or busy since an
\* earlier cycle) is skipped: the patient stays waiting, no treatment start
\* is recorded and no resource record changes.
C3_BusyResourceSkipped ==
    OptimizationFiring =>
        \A m \in ProcessingStates, t \in Triples :
            ( /\ IsWaiting(m, t.patient_id)
              /\ HasDoctor(m, t.doctor_id)
              /\ HasBed(m, t.bed_id)
              /\ \/ ~m.doctors[t.doctor_id].is_available
                 \/ ~m.beds[t.bed_id].is_available )
            => Assigned(m, t) = m

\* C4: applying a triple whose patient_id matches no patient in any waiting
\* queue leaves the whole simulation state unchanged.
C4_StalePatientSkipped ==
    OptimizationFiring =>
        \A m \in ProcessingStates, t \in Triples :
            ~IsWaiting(m, t.patient_id) => Assigned(m, t) = m

\* C4 witness: a cycle fires while one patient is in treatment and another
\* is discharged, and the triples naming them change nothing.
C4_Witness ==
    /\ OptimizationFiring
    /\ \E t, u \in Triples :
          /\ t.patient_id \in Range(treating_patients)
          /\ u.patient_id \in Range(discharged_patients)
          /\ Assigned(Pop(Cur), t) = Pop(Cur)
          /\ Assigned(Pop(Cur), u) = Pop(Cur)

\* C5: a triple naming a waiting patient with a doctor id or bed id that
\* matches no record of the pool changes nothing: the patient is still in
\* its waiting queue and no doctor or bed record has changed.
C5_UnknownResourceSkipped ==
    OptimizationFiring =>
        \A m \in ProcessingStates, t \in Triples :
            ( /\ IsWaiting(m, t.patient_id)
              /\ ~HasDoctor(m, t.doctor_id) \/ ~HasBed(m, t.bed_id) )
            => Assigned(m, t) = m

\* C6: for every patient, arrival_time <= start_treatment_time when the start
\* is set, and start_treatment_time <= end_treatment_time when the end is set.
C6_TimestampOrder ==
    \A i \in DOMAIN patients :
        LET p == patients[i]
        IN /\ p.start_treatment_time # None
                => p.arrival_time <= p.start_treatment_time
           /\ p.end_treatment_time # None
                => /\ p.start_treatment_time # None
                   /\ p.start_treatment_time <= p.end_treatment_time

\* C6 witness: a discharged patient that waited and was treated.
C6_Witness ==
    \E i \in Range(discharged_patients) :
        /\ patients[i].arrival_time < patients[i].start_treatment_time
        /\ patients[i].start_treatment_time < patients[i].end_treatment_time

\* the sum over the existing patients of the priority levels lost in a step
RECURSIVE PriorityDrop(_, _, _)
PriorityDrop(old, new, ids) ==
    IF ids = {} THEN 0
    ELSE LET i == CHOOSE x \in ids : TRUE
         IN (old[i].priority - new[i].priority)
                + PriorityDrop(old, new, ids \ {i})

\* C7: a patient's priority value never increases and never goes below 1;
\* every effective deteriorate() call lowers it by exactly one (the levels
\* lost in a step equal the escalations counted), and a P1 patient keeps P1.
C7_PriorityMonotone ==
    [][/\ \A i \in DOMAIN patients :
             /\ patients'[i].priority <= patients[i].priority
             /\ patients'[i].priority >= 1
             /\ patients[i].priority = 1 => patients'[i].priority = 1
       /\ PriorityDrop(patients, patients', DOMAIN patients)
             = total_deteriorations' - total_deteriorations]_vars

\* C7 witness: a patient escalated down to the floor P1.
C7_Witness ==
    \E i \in DOMAIN patients :
        patients[i].priority = 1 /\ patients[i].initial_priority > 1

\* C8: within a single firing of the deterioration check no patient's
\* priority value drops by more than one level.
C8_OneEscalationPerCheck ==
    [][\A i \in DOMAIN patients :
           patients[i].priority - patients'[i].priority <= 1]_vars

\* some outcome of the random draws of one check escalates patient i
CanEscalate(s, i) ==
    \E lucky3 \in SUBSET AllWaiting(s), lucky2 \in SUBSET AllWaiting(s) :
        DeteriorationCheck(s, lucky3, lucky2).patients[i].priority
            < s.patients[i].priority

IsOverdue(s, i) ==
    get_wait_time(s.patients[i], s.now)
        > get_max_wait_time(s.patients[i]) * WaitMultiplier

\* C9 (as claimed): every deterioration check evaluates every patient waiting
\* at P2..P5: an overdue patient of any of these levels can be escalated.
C9_AllLevelsChecked ==
    Firing("deterioration") =>
        \A i \in AllWaiting(Pop(Cur)) :
            (Pop(Cur).patients[i].priority \in 2..5 /\ IsOverdue(Pop(Cur), i))
                => CanEscalate(Pop(Cur), i)

\* C9 (amended): a deterioration check evaluates the patients waiting at P3
\* and P2 only: an overdue patient at P3 or P2 can be escalated by the check,
\* and a patient at P1, P4 or P5 is never escalated, however long it waits.
C9_CriticalLevelsChecked ==
    [][/\ Firing("deterioration") =>
             \A i \in AllWaiting(Pop(Cur)) :
                 (Pop(Cur).patients[i].priority \in {2, 3}
                    /\ IsOverdue(Pop(Cur), i))
                     => CanEscalate(Pop(Cur), i)
       /\ \A i \in DOMAIN patients :
             patients[i].priority \in {1, 4, 5}
                 => patients'[i].priority = patients[i].priority]_vars

\* C9 witness: a P4 patient still waiting at P4 right after a check at which
\* its wait exceeded twice the recommended maximum of its level.
C9_Witness ==
    /\ \E e \in queue :
          e.kind = "deterioration" /\ e.time = now + DeteriorationInterval
    /\ \E i \in AllWaiting(Cur) :
          /\ patients[i].priority = 4
          /\ IsOverdue(Cur, i)

\* C10: creating the controller with a non-positive number of doctors or of
\* beds fails during initialization (the error the pool constructor raises),
\* before any event is scheduled or fired.
C10_NonPositivePoolRejected ==
    (num_doctors <= 0 \/ num_beds <= 0) =>
        /\ phase = "init_failed"
        /\ error # "none"
        /\ queue = {} /\ eid = 0 /\ now = 0
        /\ metrics = <<>> /\ total_arrivals = 0

\* C10 witness: a controller asked for zero doctors, failed at construction.
C10_Witness ==
    /\ num_doctors = 0
    /\ num_beds > 0
    /\ phase = "init_failed"
    /\ error = "ValueError"

\* C11 (as claimed): with an arrival rate that is zero or negative the
\* controller fails at initialization, so the run loop never starts and no
\* failure surfaces inside it.
C11_NonPositiveRateRejected ==
    arrival_rate <= 0 => phase \notin {"running", "crashed", "finished"}

\* the outcome of a policy call that raised
PolicyRaised == [raised |-> TRUE, assignments |-> <<>>]

TreatmentStarts(q) == {e \in q : e.kind = "init_treatment"}

\* C12: when the policy call raises in an optimization cycle, the cycle
\* commits nothing (no patient leaves a queue or starts treatment, no doctor
\* or bed changes, no treatment process is started) and the optimization
\* process is due again exactly one interval later.
C12_PolicyFailureCommitsNothing ==
    OptimizationFiring =>
        LET s0 == Pop(Cur)
            s == OptimizationCycle(s0, PolicyRaised)
        IN /\ PolicyRaised \in PolicyOutcomes(s0)
           /\ s.patients = patients
           /\ s.waiting_patients = waiting_patients
           /\ s.treating_patients = treating_patients
           /\ s.doctors = doctors
           /\ s.beds = beds
           /\ TreatmentStarts(s.queue) = TreatmentStarts(queue)
           /\ \E e \in s.queue :
                  /\ e.kind = "optimization"
                  /\ e.time = s0.now + optimization_interval
           /\ \A e \in s.queue :
                  e.kind \notin {"fail_ZeroDivisionError", "fail_ValueError"}

\* C12 witness: a cycle is about to run while a patient waits and a doctor
\* and a bed are free, so a policy that returned would have work to commit.
C12_Witness ==
    /\ OptimizationFiring
    /\ AllWaiting(Cur) # {}
    /\ get_available_doctors(Cur) # {}
    /\ get_available_beds(Cur) # {}
    /\ now > 0

\* the pending events of one kind
Pending(kinds) == {e \in queue : e.kind \in kinds}

\* C13: no policy output aborts a run.  With a policy that may return any
\* sequence of triples, the run never crashes; while it is running, each of
\* the four recurring processes has exactly one occurrence pending, due
\* within its interval, every patient in treatment has its completion
\* pending at start + duration, and the horizon event is pending; the run
\* ends at the horizon.
C13_NoPolicyOutputAborts ==
    (optimizer = "any" /\ arrival_rate > 0) =>
        /\ phase # "crashed"
        /\ phase = "running" =>
              /\ Cardinality(Pending({"init_arrival", "arrival"})) = 1
              /\ Cardinality(Pending({"init_deterioration", "deterioration"})) = 1
              /\ Cardinality(Pending({"init_optimization", "optimization"})) = 1
              /\ Cardinality(Pending({"init_metrics", "metrics"})) = 1
              /\ \A e \in Pending({"deterioration"}) :
                     e.time <= now + DeteriorationInterval
              /\ \A e \in Pending({"optimization"}) :
                     e.time <= now + optimization_interval
              /\ \A e \in Pending({"metrics"}) :
                     e.time <= now + MetricsInterval
              /\ \A i \in Range(treating_patients) :
                     \E e \in Pending({"init_treatment", "treatment"}) :
                        /\ e.patient = i
                        /\ e.kind = "treatment" =>
                              e.time = patients[i].start_treatment_time
                                           + patients[i].treatment_duration
              /\ \E e \in Pending({"until"}) : e.time = simulation_time
              /\ now <= simulation_time
        /\ phase = "finished" => now = simulation_time

\* C13 witness: the run reached the horizon after a cycle in which a patient
\* was dropped from its queue by a triple naming an unknown doctor or bed.
C13_Witness ==
    /\ optimizer = "any"
    /\ phase = "finished"
    /\ \E i \in DOMAIN patients :
          /\ i \notin AllWaiting(Cur)
          /\ patients[i].start_treatment_time = None
    /\ discharged_patients # <<>>

\* C14 (as claimed): a second run in the same interpreter, with the same
\* seed, the same configuration and a policy that is a function of its
\* snapshot, returns the same result record as the first run, the ids of the
\* discharged-patient records included.
C14_RerunIdentical ==
    (phase = "finished" /\ all_results # <<>>) =>
        get_results(Cur) = all_results[Len(all_results)]

\* The scenario of a single patient: one doctor, one bed, an optimization
\* cycle every 30 minutes, a horizon of 480 minutes, one arrival at t=10
\* with a treatment of 90 minutes, and the greedy policy.
SinglePatientScenario ==
    /\ num_doctors = 1
    /\ num_beds = 1
    /\ arrival_rate > 0
    /\ optimization_interval = 30
    /\ simulation_time = 480
    /\ optimizer = "greedy"
    /\ Len(seed) = 1
    /\ seed[1].gap = 10
    /\ seed[1].duration = 90

\* C15: in the single-patient scenario the patient waits from t=10, starts
\* treatment at t=30 (the first optimization tick after its arrival, never
\* earlier), is discharged at t=120, and the run ends with total_arrivals = 1
\* and total_treated = 1.
C15_SinglePatientScenario ==
    SinglePatientScenario =>
        /\ \A i \in DOMAIN patients :
              /\ patients[i].arrival_time = 10
              /\ now < 30 => i \in AllWaiting(Cur)
              /\ patients[i].start_treatment_time # None =>
                    patients[i].start_treatment_time = 30
              /\ i \in Range(treating_patients) => (now >= 30 /\ now <= 120)
              /\ patients[i].end_treatment_time # None =>
                    patients[i].end_treatment_time = 120
              /\ now > 120 => i \in Range(discharged_patients)
        /\ phase = "finished" =>
              /\ total_arrivals = 1
              /\ total_treated = 1
              /\ Len(discharged_patients) = 1
              /\ get_results(Cur).discharged_patients[1].start_treatment = 30
              /\ get_results(Cur).discharged_patients[1].end_treatment = 120

\* C15 witness: the scenario has run to its horizon and treated its patient.
C15_Witness ==
    /\ SinglePatientScenario
    /\ phase = "finished"
    /\ now = 480
    /\ total_treated = 1

\* the instant at which the treatment of a started patient is due to end
CompletionDue(p) == p.start_treatment_time + p.treatment_duration

\* C16: a treatment, once started, always completes.  Until its completion
\* fires, the completion of a started patient stays pending for
\* start + treatment_duration, whatever the policy returns; once it has
\* fired the patient is in the discharged list with end_treatment_time set to
\* that instant and counted in total_treated; and when the run has ended,
\* every patient whose completion was due before the horizon is discharged.
C16_TreatmentCompletes ==
    /\ total_treated = Len(discharged_patients)
    /\ \A i \in DOMAIN patients :
          patients[i].start_treatment_time # None =>
              /\ (phase = "running" /\ patients[i].end_treatment_time = None) =>
                    /\ i \in Range(treating_patients)
                    /\ now <= CompletionDue(patients[i])
                    /\ \E e \in queue :
                          /\ e.patient = i
                          /\ \/ e.kind = "init_treatment"
                             \/ /\ e.kind = "treatment"
                                /\ e.time = CompletionDue(patients[i])
              /\ patients[i].end_treatment_time # None =>
                    /\ patients[i].end_treatment_time = CompletionDue(patients[i])
                    /\ i \in Range(discharged_patients)
                    /\ i \notin Range(treating_patients)
              /\ (phase = "finished"
                      /\ CompletionDue(patients[i]) < simulation_time) =>
                    /\ i \in Range(discharged_patients)
                    /\ patients[i].end_treatment_time = CompletionDue(patients[i])

\* C16 witness: the run has ended with a patient discharged although the
\* policy committed another patient while that treatment was under way (a
\* cycle due at the instant of a completion fires before the completion).
C16_Witness ==
    /\ phase = "finished"
    /\ \E i \in Range(discharged_patients) :
          \E j \in DOMAIN patients :
             /\ j # i
             /\ patients[j].start_treatment_time # None
             /\ patients[j].start_treatment_time > patients[i].start_treatment_time
             /\ patients[j].start_treatment_time <= patients[i].end_treatment_time

\* C17 (as claimed): the run loop stops only when the next pending event is
\* due strictly after the horizon, so when the run has ended every event due
\* at or before the horizon, the ones due exactly at the horizon included,
\* has fired.
C17_HorizonEventsFire ==
    phase = "finished" => \A e \in queue : e.time > simulation_time

\* C18: simulated time never decreases, and the timeouts due at the same
\* instant fire in the order in which they were scheduled (a process start,
\* which SimPy runs at once, and the horizon event are not timeouts).  At
\* every instant 30k the deterioration check has fired when the optimization
\* cycle fires, and both have fired, and every treatment committed by the
\* cycle has started, when the metrics sample of that instant is taken.
C18_SameInstantOrder ==
    [][/\ now' >= now
       /\ phase = "running" =>
             \A e \in queue \ queue' :
                /\ now' = e.time
                /\ \A f \in queue \cap queue' :
                       (~e.urgent /\ ~f.urgent /\ f.time = e.time) =>
                           e.eid < f.eid
       /\ (Firing("optimization") /\ now' % DeteriorationInterval = 0) =>
             \A f \in queue :
                f.kind \in {"init_deterioration", "deterioration"} =>
                    f.time > now'
       /\ (Sampled /\ now' % DefaultOptimizationInterval = 0) =>
             /\ LastSample.time = now'
             /\ \A f \in queue' :
                   f.kind \in {"deterioration", "optimization",
                               "init_treatment"} => f.time > now'
             /\ LastSample.treating_patients = Len(treating_patients')
      ]_vars

\* C18 witness: the sample of t=60 has been taken and counts a treatment
\* started at t=60, after an escalation of the check of t=60.
C18_Witness ==
    /\ now = 60
    /\ metrics # <<>>
    /\ metrics[Len(metrics)].time = 60
    /\ metrics[Len(metrics)].treating_patients >= 1
    /\ total_deteriorations >= 1
    /\ \E i \in DOMAIN patients : patients[i].start_treatment_time = 60

\* every place a patient can be in, as one sequence of ids
AllPlaces ==
    get_system_state(Cur).waiting_patients \o treating_patients
        \o discharged_patients

NoDuplicates(s) == \A a, b \in DOMAIN s : a # b => s[a] # s[b]

\* C19: in every reachable state no patient is in more than one of the five
\* waiting queues, the in-treatment list and the discharged list, or more
\* than once in one of them, and every waiting patient is in the queue keyed
\* by its current priority.
C19_OnePlacePerPatient ==
    /\ NoDuplicates(AllPlaces)
    /\ Range(AllPlaces) \subseteq DOMAIN patients
    /\ \A k \in Priorities :
          \A i \in Range(waiting_patients[k]) : patients[i].priority = k

\* C19 witness: an escalated patient waits in the queue of its new level
\* while another patient is in treatment.
C19_Witness ==
    /\ treating_patients # <<>>
    /\ \E i \in DOMAIN patients :
          /\ patients[i].priority # patients[i].initial_priority
          /\ i \in Range(waiting_patients[patients[i].priority])

\* the elements of s that are in the set keep, in the order of s
RECURSIVE Restrict(_, _)
Restrict(s, keep) ==
    IF s = <<>> THEN <<>>
    ELSE IF Head(s) \in keep THEN <<Head(s)>> \o Restrict(Tail(s), keep)
    ELSE Restrict(Tail(s), keep)

IsPrefix(s, t) == Len(s) <= Len(t) /\ s = SubSeq(t, 1, Len(s))

C21_PriorityFrozenInTreatment ==
    [][\A i \in DOMAIN patients \cap DOMAIN patients' :
          patients'[i].start_treatment_time # None =>
              patients'[i].priority = patients[i].priority]_vars

\* C21 witness: a P2 patient assigned at t=30 has kept its level through the
\* check of t=60, which escalated another patient.
C21_Witness ==
    /\ now >= 60
    /\ \E i, j \in DOMAIN patients :
          /\ i # j
          /\ patients[i].start_treatment_time = 30
          /\ patients[i].initial_priority = 2
          /\ patients[i].priority = 2
          /\ patients[j].priority # patients[j].initial_priority

\* C22: assigned_doctor, assigned_bed and start_treatment_time are written
\* at most once, and so is end_treatment_time: whatever the policy returns,
\* a step leaves the assignment fields of a patient that has started
\* treatment, and the end timestamp of a patient that has one, unchanged.
C22_FieldsWrittenOnce ==
    [][\A i \in DOMAIN patients \cap DOMAIN patients' :
          /\ patients[i].start_treatment_time # None =>
                /\ patients'[i].start_treatment_time
                       = patients[i].start_treatment_time
                /\ patients'[i].assigned_doctor = patients[i].assigned_doctor
                /\ patients'[i].assigned_bed = patients[i].assigned_bed
          /\ patients[i].end_treatment_time # None =>
                patients'[i].end_treatment_time = patients[i].end_treatment_time
      ]_vars

\* C22 witness: a patient has all four fields set and at least one
\* optimization cycle with an arbitrary policy output has fired since its
\* discharge.
C22_Witness ==
    /\ optimizer = "any"
    /\ \E i \in Range(discharged_patients) :
          /\ patients[i].assigned_doctor # None
          /\ patients[i].assigned_bed # None
          /\ patients[i].start_treatment_time # None
          /\ patients[i].end_treatment_time # None
          /\ now >= patients[i].end_treatment_time + optimization_interval

\* the ids a policy or the controller can hand to assign_patient
PatientIds == (FirstId + 1)..(FirstId + MaxPatients)

\* C23: for every doctor and every bed record reached through assign_patient
\* and release_patient, current_patient is set exactly when is_available is
\* false; assign_patient makes the record unavailable with the given patient
\* id, and release_patient makes it available, clears current_patient and
\* adds the given time to the cumulative busy time.
C23_ResourceRecords ==
    /\ \A i \in DOMAIN doctors :
          LET d == doctors[i]
          IN /\ (d.current_patient # None) <=> ~d.is_available
             /\ \A pid \in PatientIds :
                   /\ ~DoctorAssign(d, pid).is_available
                   /\ DoctorAssign(d, pid).current_patient = pid
             /\ \A time \in Durations :
                   /\ DoctorRelease(d, time).is_available
                   /\ DoctorRelease(d, time).current_patient = None
                   /\ DoctorRelease(d, time).total_treatment_time
                          = d.total_treatment_time + time
    /\ \A i \in DOMAIN beds :
          LET b == beds[i]
          IN /\ (b.current_patient # None) <=> ~b.is_available
             /\ \A pid \in PatientIds :
                   /\ ~BedAssign(b, pid).is_available
                   /\ BedAssign(b, pid).current_patient = pid
             /\ \A time \in Durations :
                   /\ BedRelease(b, time).is_available
                   /\ BedRelease(b, time).current_patient = None
                   /\ BedRelease(b, time).total_occupancy_time
                          = b.total_occupancy_time + time

\* C23 witness: a doctor has been assigned, released and assigned again,
\* and a bed has been released at least once.
C23_Witness ==
    /\ \E i \in DOMAIN doctors :
          /\ ~doctors[i].is_available
          /\ doctors[i].total_patients_treated >= 2
          /\ doctors[i].total_treatment_time > 0
    /\ \E i \in DOMAIN beds : beds[i].total_occupancy_time > 0

\* the instants at which a wait time is asked for
TimePoints == {t \in 0..simulation_time : t % MetricsInterval = 0}

\* C24: get_wait_time(t) is t - arrival_time while the patient has not
\* started treatment and start_treatment_time - arrival_time for every t
\* once it has, so the wait time reported for a started patient is the same
\* at every instant and is the one reported in its discharged record.
C24_WaitTimeStops ==
    /\ \A i \in DOMAIN patients :
          \A t \in TimePoints :
             get_wait_time(patients[i], t) =
                 IF patients[i].start_treatment_time = None
                 THEN t - patients[i].arrival_time
                 ELSE patients[i].start_treatment_time
                          - patients[i].arrival_time
    /\ \A k \in DOMAIN discharged_patients :
          LET r == DischargedRecord(Cur, discharged_patients[k])
          IN r.wait_time = r.start_treatment - r.arrival_time

\* C24 witness: a patient that waited 20 minutes or more has been discharged
\* and the clock has moved on since the end of its treatment.
C24_Witness ==
    \E i \in Range(discharged_patients) :
        /\ patients[i].start_treatment_time >= patients[i].arrival_time + 20
        /\ now > patients[i].end_treatment_time

\* ------------------------------------------------------------ optimizers
\* The optimizers are functions of the snapshot; the solver of the MILP is
\* modelled by its contract (an optimal solution of the program, or
\* infeasible).  A method name is a sequence of characters.
MaxWaiting == 2
MaxFreeBeds == 2
MaxNameLen == 4
SnapshotTime == 150
SnapshotDuration == 30
PriorityWeight == 100
MustTreatLevel == 2

WaitChoices == {0, 20, 130}
Characters == {"c", "C", "p", "P", "m", "M", "i", "I", "l", "L", "x"}
MethodNames == UNION {[1..n -> Characters] : n \in 0..MaxNameLen}
NameCP == <<"C", "P">>
NameMILP == <<"M", "I", "L", "P">>

\* str.upper(), character by character
UpperChar(c) ==
    CASE c = "c" -> "C"
      [] c = "p" -> "P"
      [] c = "m" -> "M"
      [] c = "i" -> "I"
      [] c = "l" -> "L"
      [] c = "x" -> "X"
      [] OTHER -> c

upper(name) == [k \in DOMAIN name |-> UpperChar(name[k])]

\* faulty variant: the method name is compared as given
create_optimizer_exact(name, model_loaded) ==
    IF name = NameCP
    THEN [class |-> "CPOptimizer", model |-> model_loaded]
    ELSE IF name = NameMILP
    THEN [class |-> "MILPOptimizer", model |-> TRUE]
    ELSE [class |-> "ValueError", model |-> FALSE]

\* create_optimizer; model_loaded tells whether CPOptimizer.__init__ could
\* load the MiniZinc model and look the solver up
create_optimizer(name, model_loaded) ==
    IF upper(name) = NameCP
    THEN [class |-> "CPOptimizer", model |-> model_loaded]
    ELSE IF upper(name) = NameMILP
    THEN [class |-> "MILPOptimizer", model |-> TRUE]
    ELSE [class |-> "ValueError", model |-> FALSE]

\* the snapshots handed to optimize(): the waiting patients by level, as
\* _get_system_state lists them, and the available doctors and beds
WaitingDraws ==
    UNION {[1..n -> [priority : Priorities, wait : WaitChoices]] :
              n \in 0..MaxWaiting}

SnapshotPatients(draws) ==
    [k \in DOMAIN draws |->
        NewPatient(k, SnapshotTime - draws[k].wait, draws[k].priority,
                   SnapshotDuration)]

WaitingLists ==
    {SnapshotPatients(d) : d \in
        {w \in WaitingDraws :
            \A a, b \in DOMAIN w : a < b => w[a].priority <= w[b].priority}}

IdLists(n) == {SetToSeq(S) : S \in SUBSET (0..(n - 1))}

Snapshots ==
    [waiting_patients : WaitingLists, available_doctors : IdLists(MaxDoctors),
     available_beds : IdLists(MaxFreeBeds), current_time : {SnapshotTime}]

\* ---- MILPOptimizer.optimize
\* constraint 6: the patients that must be treated
MustTreat(state) ==
    {i \in DOMAIN state.waiting_patients :
        LET p == state.waiting_patients[i]
        IN /\ p.priority <= MustTreatLevel
           /\ get_wait_time(p, state.current_time) >= get_max_wait_time(p)}

\* faulty variant: the constraints "one patient per doctor / per bed" dropped
AllChoices(S, n) == [S -> 1..n]

Injections(S, n) ==
    {f \in [S -> 1..n] : \A a, b \in S : a # b => f[a] # f[b]}

\* constraints 1 to 6, for the treated patients z with their doctor x and bed y
FeasibleSolutions(state) ==
    UNION {[z : {Z}, x : Injections(Z, Len(state.available_doctors)),
            y : Injections(Z, Len(state.available_beds))] :
              Z \in {S \in SUBSET DOMAIN state.waiting_patients :
                        MustTreat(state) \subseteq S}}

\* the objective, without the term that does not depend on the solution
Penalty(state, sol) ==
    SumSeq([i \in DOMAIN state.waiting_patients |->
               IF i \in sol.z THEN 0
               ELSE LET p == state.waiting_patients[i]
                    IN (6 - p.priority) * PriorityWeight
                           + get_wait_time(p, state.current_time)])

\* faulty variant: every feasible solution is taken for an optimal one
AnySolutions(state) == FeasibleSolutions(state)

OptimalSolutions(state) ==
    {sol \in FeasibleSolutions(state) :
        \A other \in FeasibleSolutions(state) :
            Penalty(state, sol) <= Penalty(state, other)}

\* the extraction loop over the treated patients, in snapshot order
Extract(state, sol) ==
    LET treated == SetToSeq(sol.z)
    IN [k \in DOMAIN treated |->
           [patient_id |-> state.waiting_patients[treated[k]].id,
            doctor_id |-> state.available_doctors[sol.x[treated[k]]],
            bed_id |-> state.available_beds[sol.y[treated[k]]]]]

NothingToAssign(state) ==
    \/ Len(state.waiting_patients) = 0
    \/ Len(state.available_doctors) = 0
    \/ Len(state.available_beds) = 0

Returned(solved, assignments) ==
    [called |-> TRUE, solved |-> solved, assignments |-> assignments]

\* faulty variant: the program is built and solved for every snapshot
MILPOptimizeAlways(state) ==
    IF FeasibleSolutions(state) = {} THEN {Returned(TRUE, <<>>)}
    ELSE {Returned(TRUE, Extract(state, sol)) : sol \in OptimalSolutions(state)}

MILPOptimize(state) ==
    IF NothingToAssign(state) THEN {Returned(FALSE, <<>>)}
    ELSE IF FeasibleSolutions(state) = {} THEN {Returned(TRUE, <<>>)}
    ELSE {Returned(TRUE, Extract(state, sol)) : sol \in OptimalSolutions(state)}

\* ---- CPOptimizer.optimize
\* The MiniZinc model is not part of the Python sources: a solved instance
\* yields, for every patient, treated or not and a doctor and a bed index,
\* of which the extraction loop keeps the treated ones with indices in range.
CPSolutions(state) ==
    UNION {[z : {Z}, x : [Z -> 1..Len(state.available_doctors)],
            y : [Z -> 1..Len(state.available_beds)]] :
              Z \in SUBSET DOMAIN state.waiting_patients}

CPOptimize(state, model_loaded) ==
    IF ~model_loaded THEN {Returned(FALSE, <<>>)}
    ELSE IF NothingToAssign(state) THEN {Returned(FALSE, <<>>)}
    ELSE {Returned(TRUE, <<>>)}
             \cup {Returned(TRUE, Extract(state, sol)) : sol \in CPSolutions(state)}

\* ---- the calls
\* no controller exists while an optimizer is called on its own
NoController ==
    /\ num_doctors = 0
    /\ num_beds = 0
    /\ arrival_rate = 0
    /\ optimization_interval = DefaultOptimizationInterval
    /\ optimizer = "none"
    /\ simulation_time = 0
    /\ seed = <<>>
    /\ rng = <<>>
    /\ all_results = <<>>
    /\ error = "none"
    /\ phase = "absent"
    /\ now = 0
    /\ queue = {}
    /\ eid = 0
    /\ id_counter = 0
    /\ patients = <<>>
    /\ waiting_patients = [k \in Priorities |-> <<>>]
    /\ treating_patients = <<>>
    /\ discharged_patients = <<>>
    /\ doctors = <<>>
    /\ beds = <<>>
    /\ metrics = <<>>
    /\ total_arrivals = 0
    /\ total_treated = 0
    /\ total_deteriorations = 0

simulation == <<config, all_results, phase, error, rng, now, queue, eid,
                id_counter, patients, waiting_patients, treating_patients,
                discharged_patients, doctors, beds, metrics, total_arrivals,
                total_treated, total_deteriorations>>

InitOptimizer ==
    /\ NoController
    /\ created = [class |-> "none", model |-> FALSE]
    /\ opt_result = [called |-> FALSE, solved |-> FALSE, assignments |-> <<>>]
    /\ \/ /\ method \in MethodNames
          /\ opt_state \in {st \in Snapshots : st.waiting_patients = <<>>
                                 /\ st.available_doctors = <<>>
                                 /\ st.available_beds = <<>>}
       \/ /\ method \in {NameCP, NameMILP}
          /\ opt_state \in Snapshots

CreateOptimizer ==
    /\ created.class = "none"
    /\ \E model_loaded \in BOOLEAN :
          created' = create_optimizer(method, model_loaded)
    /\ UNCHANGED <<simulation, method, opt_state, opt_result>>

Optimize ==
    /\ ~opt_result.called
    /\ \/ /\ created.class = "MILPOptimizer"
          /\ opt_result' \in MILPOptimize(opt_state)
       \/ /\ created.class = "CPOptimizer"
          /\ opt_result' \in CPOptimize(opt_state, created.model)
    /\ UNCHANGED <<simulation, method, created, opt_state>>

NextOptimizer == CreateOptimizer \/ Optimize

SpecOptimizer == InitOptimizer /\ [][NextOptimizer]_vars

\* ------------------------------------------------------------ claims on the optimizers
MILPCalled == opt_result.called /\ created.class = "MILPOptimizer"

\* the positions, in the snapshot's waiting list, of the patients of the result
AssignedPositions ==
    {i \in DOMAIN opt_state.waiting_patients :
        \E k \in DOMAIN opt_result.assignments :
            opt_result.assignments[k].patient_id
                = opt_state.waiting_patients[i].id}

\* C25 (as claimed): whenever the snapshot holds a waiting patient, an
\* available doctor and an available bed, the MILP optimizer returns at least
\* one assignment, whatever the priorities and wait times.
C25_MILPAssignsSomeone ==
    (MILPCalled /\ ~NothingToAssign(opt_state)) =>
        opt_result.assignments # <<>>

\* C26 (as claimed): the MILP optimizer never returns an assignment for a
\* patient while a waiting patient of strictly more urgent priority is left
\* unassigned.
C26_MILPUrgencyFirst ==
    MILPCalled =>
        \A i, j \in DOMAIN opt_state.waiting_patients :
            (/\ j \in AssignedPositions
             /\ opt_state.waiting_patients[i].priority
                    < opt_state.waiting_patients[j].priority)
                => i \in AssignedPositions

\* C27: every list returned by the MILP optimizer is conflict-free and drawn
\* from the snapshot: no patient, doctor or bed id is in two triples, every
\* patient id is a waiting patient of the snapshot, every doctor and bed id
\* an available doctor and bed of the snapshot, and the list is no longer
\* than the smallest of the three counts.
C27_MILPConflictFree ==
    MILPCalled =>
        LET r == opt_result.assignments
        IN /\ \A a, b \in DOMAIN r :
                 a # b => /\ r[a].patient_id # r[b].patient_id
                          /\ r[a].doctor_id # r[b].doctor_id
                          /\ r[a].bed_id # r[b].bed_id
           /\ \A a \in DOMAIN r :
                 /\ \E i \in DOMAIN opt_state.waiting_patients :
                        opt_state.waiting_patients[i].id = r[a].patient_id
                 /\ r[a].doctor_id \in Range(opt_state.available_doctors)
                 /\ r[a].bed_id \in Range(opt_state.available_beds)
           /\ Len(r) <= Len(opt_state.waiting_patients)
           /\ Len(r) <= Len(opt_state.available_doctors)
           /\ Len(r) <= Len(opt_state.available_beds)

\* C27 witness: the MILP optimizer has returned two triples.
C27_Witness ==
    /\ MILPCalled
    /\ Len(opt_result.assignments) = 2

\* C28: the MILP and the CP optimizer return the empty list, without
\* invoking a solver, whenever the snapshot has no waiting patient, or no
\* available doctor, or no available bed.
C28_EmptySnapshotShortCut ==
    (opt_result.called /\ NothingToAssign(opt_state)) =>
        /\ opt_result.assignments = <<>>
        /\ ~opt_result.solved

\* C28 witness: a CP optimizer with its model loaded and a MILP optimizer
\* are called while patients wait and a doctor is free but no bed is.
C28_Witness ==
    /\ opt_result.called
    /\ created.model
    /\ opt_state.waiting_patients # <<>>
    /\ opt_state.available_doctors # <<>>
    /\ opt_state.available_beds = <<>>

\* a method name that is CP, or MILP, up to the case of its letters
IsCP(name) ==
    /\ Len(name) = 2
    /\ name[1] \in {"c", "C"}
    /\ name[2] \in {"p", "P"}

IsMILP(name) ==
    /\ Len(name) = 4
    /\ name[1] \in {"m", "M"}
    /\ name[2] \in {"i", "I"}
    /\ name[3] \in {"l", "L"}
    /\ name[4] \in {"p", "P"}

\* C29: create_optimizer returns a CP optimizer for the method name CP and
\* a MILP optimizer for MILP, in any mix of upper and lower case, and fails
\* with ValueError for every other name, in which case no optimizer exists
\* and none is ever called.
C29_FactoryByName ==
    /\ created.class # "none" =>
          /\ created.class = "CPOptimizer" <=> IsCP(method)
          /\ created.class = "MILPOptimizer" <=> IsMILP(method)
          /\ created.class = "ValueError" <=> (~IsCP(method) /\ ~IsMILP(method))
    /\ opt_result.called => (IsCP(method) \/ IsMILP(method))

\* C29 witness: a MILP optimizer was created from a name in mixed case.
C29_Witness ==
    /\ created.class = "MILPOptimizer"
    /\ method = <<"m", "I", "l", "p">>

\* C30: every discharged patient has end_treatment_time =
\* start_treatment_time + treatment_duration, and the step of its discharge
\* takes it out of the in-treatment list and into the discharged list,
\* raises total_treated by exactly one, and adds exactly treatment_duration
\* to the cumulative busy time of its assigned doctor and of its assigned bed.
C30_DischargeStep ==
    [][/\ \A i \in Range(discharged_patients) :
             patients[i].end_treatment_time = CompletionDue(patients[i])
       /\ Firing("treatment") =>
             LET i == NextEvent(queue).patient
                 p == patients[i]
             IN /\ now' = CompletionDue(p)
                /\ patients'[i].end_treatment_time = now'
                /\ i \in Range(treating_patients)
                /\ i \notin Range(treating_patients')
                /\ i \notin Range(discharged_patients)
                /\ discharged_patients' = Append(discharged_patients, i)
                /\ total_treated' = total_treated + 1
                /\ doctors'[p.assigned_doctor].total_treatment_time
                       = doctors[p.assigned_doctor].total_treatment_time
                             + p.treatment_duration
                /\ beds'[p.assigned_bed].total_occupancy_time
                       = beds[p.assigned_bed].total_occupancy_time
                             + p.treatment_duration
      ]_vars

\* C30 witness: two patients with different treatment durations have been
\* discharged from the same doctor.
C30_Witness ==
    /\ Len(discharged_patients) = 2
    /\ \E d \in DOMAIN doctors :
          /\ doctors[d].total_patients_treated = 2
          /\ doctors[d].total_treatment_time = 40

\* the patients whose treatment starts in this step
Started ==
    {i \in DOMAIN patients' :
        /\ patients'[i].start_treatment_time # None
        /\ i \in DOMAIN patients => patients[i].start_treatment_time = None}

\* C31: the policy call takes no simulated time: every patient committed
\* in an optimization cycle has start_treatment_time equal to the firing
\* time of that cycle, which is a positive multiple of the optimization
\* interval, and all patients committed in one batch share that start time.
C31_StartAtCycleTime ==
    [][Started # {} =>
          /\ Firing("optimization")
          /\ now' = NextEvent(queue).time
          /\ now' > 0
          /\ now' % optimization_interval = 0
          /\ \A i \in Started : patients'[i].start_treatment_time = now'
      ]_vars

\* C31 witness: two patients were committed by one batch (they share their
\* start time), and another cycle has fired since.
C31_Witness ==
    /\ optimizer = "any"
    /\ \E i, j \in DOMAIN patients :
          /\ i # j
          /\ patients[i].start_treatment_time # None
          /\ patients[i].start_treatment_time = patients[j].start_treatment_time
          /\ now >= patients[i].start_treatment_time + optimization_interval

\* a sequence without repetition
IsInjective(q) == \A i, j \in DOMAIN q : q[i] = q[j] => i = j

Threshold(p, k) == get_max_wait_time([p EXCEPT !.priority = k]) * WaitMultiplier

\* the patients ahead of patient i in queue q
Ahead(q, i) == {q[n] : n \in {m \in DOMAIN q : \E l \in DOMAIN q : l > m /\ q[l] = i}}

\* C33: a deterioration check escalates a waiting patient only when its
\* elapsed wait strictly exceeds the configured multiple of the maximum
\* recommended wait of its current priority (for each level it leaves); a
\* patient at or below that threshold keeps its priority and its place in
\* its queue (nobody new gets ahead of it), and total_deteriorations grows
\* by exactly one per escalation step.
C33_EscalationThreshold ==
    [][Firing("deterioration") =>
          /\ \A i \in DOMAIN patients :
                LET p == patients[i]
                    wait_time == get_wait_time(p, now')
                IN /\ patients'[i].priority # p.priority => IsWaiting(Cur, i)
                   /\ \A k \in (patients'[i].priority + 1)..p.priority :
                         wait_time > Threshold(p, k)
                   /\ (IsWaiting(Cur, i) /\ wait_time <= Threshold(p, p.priority))
                         => /\ patients'[i] = p
                            /\ i \in Range(waiting_patients'[p.priority])
                            /\ Ahead(waiting_patients'[p.priority], i)
                                  \subseteq Ahead(waiting_patients[p.priority], i)
          /\ total_deteriorations' - total_deteriorations
                = PriorityDrop(patients, patients', DOMAIN patients)
      ]_vars

\* C33 witness: after a check, a P3 patient whose wait equals its threshold
\* of 60 minutes is still P3 while a patient that had waited longer was
\* escalated, the counter matching the levels lost.
C33_Witness ==
    /\ now = 90
    /\ ~Firing("deterioration")
    /\ \E e \in queue : e.kind = "deterioration" /\ e.time = 120
    /\ \E i, j \in DOMAIN patients :
          /\ IsWaiting(Cur, i)
          /\ patients[i].priority = 3
          /\ now - patients[i].arrival_time = Threshold(patients[i], 3)
          /\ patients[j].priority < patients[j].initial_priority
          /\ total_deteriorations
                = patients[j].initial_priority - patients[j].priority

\* the in-treatment patients that hold doctor i, respectively bed i
DoctorHolders(i) ==
    {pid \in Range(treating_patients) : patients[pid].assigned_doctor = i}
BedHolders(i) ==
    {pid \in Range(treating_patients) : patients[pid].assigned_bed = i}

\* C34: when every policy output is well-formed (each triple names a
\* distinct waiting patient, a distinct doctor and a distinct bed of the
\* snapshot), in every reachable state a doctor (a bed) is unavailable if
\* and only if exactly one in-treatment patient has it as assigned_doctor
\* (assigned_bed), its current_patient then being that patient's id, and an
\* available doctor or bed has no in-treatment patient.
C34_ResourceHeldByOne ==
    optimizer = "wellformed" =>
        /\ \A i \in DOMAIN doctors :
              /\ ~doctors[i].is_available <=> Cardinality(DoctorHolders(i)) = 1
              /\ ~doctors[i].is_available =>
                     doctors[i].current_patient \in DoctorHolders(i)
              /\ doctors[i].is_available => DoctorHolders(i) = {}
        /\ \A i \in DOMAIN beds :
              /\ ~beds[i].is_available <=> Cardinality(BedHolders(i)) = 1
              /\ ~beds[i].is_available =>
                     beds[i].current_patient \in BedHolders(i)
              /\ beds[i].is_available => BedHolders(i) = {}

\* C34 witness: a doctor that has already treated and released one patient
\* is busy with a second one.
C34_Witness ==
    /\ optimizer = "wellformed"
    /\ \E i \in DOMAIN doctors :
          /\ ~doctors[i].is_available
          /\ doctors[i].total_patients_treated = 2
          /\ doctors[i].total_treatment_time > 0
          /\ DoctorHolders(i) # {}

\* the sum over all doctors of total_patients_treated
TotalAssignments ==
    LET ids == SetToSeq(DOMAIN doctors)
    IN SumSeq([k \in DOMAIN ids |-> doctors[ids[k]].total_patients_treated])

\* C35: in every reachable state total_treated equals the size of the
\* discharged collection and never exceeds total_arrivals, and the sum over
\* all doctors of total_patients_treated equals the number of committed
\* assignments, the in-treatment count plus the discharged count (the
\* per-doctor counter is incremented at assignment, not at completion).
C35_TreatedCounters ==
    /\ total_treated = Len(discharged_patients)
    /\ total_treated <= total_arrivals
    /\ TotalAssignments = Len(treating_patients) + Len(discharged_patients)

\* C35 witness: one patient is discharged and another is still in
\* treatment, so the doctors' counters exceed total_treated.
C35_Witness ==
    /\ Len(discharged_patients) = 1
    /\ Len(treating_patients) = 1
    /\ total_treated = 1
    /\ TotalAssignments = 2

\* C36: when every policy output is well-formed (only snapshot-available
\* doctors and beds, each at most once per batch), at every instant each
\* doctor's cumulative treatment time and each bed's cumulative occupancy
\* time is at most the elapsed simulated time, so no utilization or
\* occupancy rate, computed now or reported in a metrics sample, exceeds
\* 100 percent.
C36_BusyTimeBounded ==
    optimizer = "wellformed" =>
        /\ \A i \in DOMAIN doctors :
              /\ doctors[i].total_treatment_time <= now
              /\ get_utilization_rate(doctors[i], now) <= 100
        /\ \A i \in DOMAIN beds :
              /\ beds[i].total_occupancy_time <= now
              /\ get_occupancy_rate(beds[i], now) <= 100
        /\ \A k \in DOMAIN metrics :
              /\ metrics[k].doctor_utilization <= 100
              /\ metrics[k].bed_occupancy <= 100

\* C36 witness: a doctor has treated two patients one after the other for
\* 120 minutes in all and is at 80 percent at minute 150, and a later
\* sample reports a utilization above zero.
C36_Witness ==
    /\ optimizer = "wellformed"
    /\ \E i \in DOMAIN doctors :
          /\ doctors[i].total_patients_treated = 2
          /\ doctors[i].total_treatment_time = 120
          /\ get_utilization_rate(doctors[i], 150) = 80
    /\ metrics # <<>>
    /\ metrics[Len(metrics)].time >= 150
    /\ metrics[Len(metrics)].doctor_utilization > 0

\* the sum over the patients ids of the levels lost since their triage
RECURSIVE LevelsLost(_)
LevelsLost(ids) ==
    IF ids = {} THEN 0
    ELSE LET i == CHOOSE x \in ids : TRUE
         IN (patients[i].initial_priority - patients[i].priority)
                + LevelsLost(ids \ {i})

\* C37: in every reachable state total_deteriorations equals the sum, over
\* all patients created so far, of (initial priority value minus current
\* priority value).
C37_DeteriorationCount ==
    total_deteriorations = LevelsLost(DOMAIN patients)

\* C37 witness: two patients have been escalated, one of them by more than
\* one level, and the counter stands at three or more.
C37_Witness ==
    /\ total_deteriorations >= 3
    /\ \E i, j \in DOMAIN patients :
          /\ i # j
          /\ patients[i].initial_priority - patients[i].priority >= 2
          /\ patients[j].initial_priority - patients[j].priority >= 1
====
